---- MODULE Spec2Model ----
(***************************************************************************)
(* A model of easy_deploy.py (src/easy_deploy/easy_deploy.py): one run of  *)
(* the command line tool.  The run is a sequential program; pc names the   *)
(* remote call or local step that comes next.  Every remote call goes      *)
(* through _make_api_call and can be answered by a non-200 response.       *)
(* `calls` records the remote requests and sleeps in the order they are    *)
(* issued (the repeated polls of one deployment are recorded once).        *)
(***************************************************************************)
EXTENDS Integers, Sequences, FiniteSets, TLC

(* ------------------------------ bounds -------------------------------- *)
\* instances in the listing of the layer
MaxInst == 3
\* polls of one deployment before the remote service must report a terminal status
MaxPolls == 3
\* seconds one describe_deployments call can take
MaxLatency == 1

(* ------------------------- program constants -------------------------- *)
PollInterval == 20
DrainFallback == 20
reboot_delay == 300
HealthMargin == 2
HTTP_OK == 200

\* Python's None, for every variable that holds a string or None
None == "<None>"

Max(a, b) == IF a > b THEN a ELSE b

\* a Python dict is a function from its keys; {} is the function with no key
EmptyDict == [k \in {} |-> {}]

(* ------------------------ the remote services ------------------------- *)
\* HTTPStatusCode of a response
StatusCodes == {200, 500}

InstanceRecord(i, st) ==
    [InstanceId |-> i,
     Ec2InstanceId |-> IF st = "online" THEN 10 + i ELSE 0,
     Hostname |-> 100 + i,
     Status |-> st]

\* instances of a listing that are not online
MaxStopped == 1

\* the statuses of a listing of n instances
StatusesOf(n) ==
    { f \in [1..n -> {"online", "stopped"}] :
        Cardinality({ i \in 1..n : f[i] = "stopped" }) <= MaxStopped }

\* the instance listings describe_instances can return: 0..MaxInst instances,
\* each online or stopped (a stopped instance has no Ec2InstanceId)
Listings ==
    UNION { { [i \in 1..n |-> InstanceRecord(i, f[i])] : f \in StatusesOf(n) }
            : n \in 0..MaxInst }

\* what describe_elastic_load_balancers returns for the layer and for the stack; the
\* run learns it with its first describe_elastic_load_balancers call
LbConfigs ==
    { [layer |-> <<>>, stack |-> <<>>],
      [layer |-> <<"L1">>,
       stack |-> << [ElasticLoadBalancerName |-> "L1", Ec2InstanceIds |-> {11, 12}] >>],
      [layer |-> <<"L1">>,
       stack |-> << [ElasticLoadBalancerName |-> "L1", Ec2InstanceIds |-> {11}],
                    [ElasticLoadBalancerName |-> "L2", Ec2InstanceIds |-> {11, 99}],
                    [ElasticLoadBalancerName |-> "L3", Ec2InstanceIds |-> {99}] >>],
      [layer |-> <<"L1", "L2">>,
       stack |-> << [ElasticLoadBalancerName |-> "L1", Ec2InstanceIds |-> {}],
                    [ElasticLoadBalancerName |-> "L2", Ec2InstanceIds |-> {}] >>] }

StackListings ==
    { <<>>,
      << [Name |-> "Web", Id |-> "s1"] >>,
      << [Name |-> "api", Id |-> "s2"], [Name |-> "WEB", Id |-> "s1"], [Name |-> "web", Id |-> "s3"] >> }

LayerListings ==
    { <<>>,
      << [Name |-> "App", Id |-> "l1"] >>,
      << [Name |-> "db", Id |-> "l2"], [Name |-> "app", Id |-> "l1"], [Name |-> "APP", Id |-> "l3"] >> }

AppListings ==
    { <<>>,
      << [Name |-> "myapp", Id |-> "a1"] >>,
      << [Name |-> "MyApp", Id |-> "a2"], [Name |-> "myapp", Id |-> "a1"], [Name |-> "myapp", Id |-> "a3"] >> }

\* LoadBalancerAttributes of one load balancer: the ConnectionDraining key can be absent
ElbAttributes ==
    { [HasDraining |-> FALSE, Enabled |-> FALSE, Timeout |-> 0],
      [HasDraining |-> TRUE, Enabled |-> FALSE, Timeout |-> 300],
      [HasDraining |-> TRUE, Enabled |-> TRUE, Timeout |-> 5],
      [HasDraining |-> TRUE, Enabled |-> TRUE, Timeout |-> 30] }

\* HealthCheck of one load balancer description
HealthChecks ==
    { [HealthyThreshold |-> 2, Interval |-> 5],
      [HealthyThreshold |-> 10, Interval |-> 30] }

\* what describe_instance_health reports for the instance asked about
HealthStates == {"InService", "OutOfService", "absent"}

\* the Status of a deployment in a describe_deployments response; "absent": the
\* response lists no deployment with the id asked for
PollStatuses == {"running", "successful", "failed", "absent"}

\* seconds in a day: datetime.timedelta keeps days and seconds apart
SecondsPerDay == 86400

\* CreatedAt, CompletedAt (seconds since the epoch) and Duration of a terminal
\* deployment in a describe_deployments response; Duration is 0 when the service
\* did not populate it
TerminalRecords ==
    { [CreatedAt |-> 100, CompletedAt |-> 160, Duration |-> 0],
      [CreatedAt |-> 100, CompletedAt |-> 100 + SecondsPerDay + 60,
       Duration |-> SecondsPerDay + 60] }

(* ------------------------- command line inputs ------------------------ *)
\* the chains of target-selection commands of one run (click.group(chain=True))
Chains == { <<"all">>, <<"rolling">>, <<"instances">>,
            <<"rolling", "all">>, <<"instances", "all">> }

\* --stack-name and --layer-name
StackName == "web"
\* the same name as the stack's owner wrote it
StackNameMixed == "Web"
StackNames == {StackName, StackNameMixed}
LayerName == "app"
\* --timeout is passed on as the string given on the command line
Timeouts == {None, "", "5"}
\* the --timeout values tried with a chain: every value with a lone `all`, none or
\* "5" with another lone command, none with a chain of two commands
TimeoutsFor(chain) ==
    IF chain = <<"all">> THEN Timeouts
    ELSE IF Len(chain) = 1 THEN Timeouts \ {""}
    ELSE {None}
\* --custom_json: absent, inline text that is not valid JSON, the empty object, an
\* object with a top-level dependencies key, the empty object after two blanks, or the
\* path of a file
BadJson == "{oops"
EmptyJson == "{}"
DependenciesJson == "{\"dependencies\": {\"packages\": true}}"
SpacedJson == "  {}"
PathJson == "/tmp/x.json"
CustomJsons == {None, BadJson, EmptyJson, DependenciesJson, SpacedJson, PathJson}
\* what the file system holds at a path: no file, or a file with one of the texts
Missing == "<missing>"
FileContents == {Missing, BadJson, EmptyJson, DependenciesJson}
\* the texts tried with a chain: the inline objects with a lone `all`, the blanks and
\* the file path with a lone `instances`, no text or the invalid one with a lone
\* `rolling`, no text with a chain of two commands
CustomJsonsFor(chain) ==
    IF chain = <<"all">> THEN {None, BadJson, EmptyJson, DependenciesJson}
    ELSE IF chain = <<"instances">> THEN {None, SpacedJson, PathJson}
    ELSE IF chain = <<"rolling">> THEN {None, BadJson}
    ELSE {None}
\* --exclude-hosts / --hosts after split(',')
HostLists == { {101}, {102, 103} }

(* ------------------------------- state -------------------------------- *)
\* Instances, layerElbs, stackElbs: what the remote services report
\* command .. cmds: the operation kind and the target commands of the chain started
\*   so far
\* stack_name .. ci: the options of the current target command, ci its place in cmds
\* _stack_id .. post_deployment_hooks: the Operation object
\* load_balancer_names .. polls: the locals of the strategy, of _deploy_to, of the
\*   hooks and of _poll_deployment_complete
\* parse: the locals of parse_custom_json, from the call in _create_deployment_arguments
\*   to the create_deployment request: the path opened, the text handed to json.loads
\*   and the object returned
\* deployment_status, duration_seconds: the terminal deployment record read by the poll
\*   just made and the seconds its log line reports (-1 when it logs no duration)
\* deployments: the deployments created, each with the CustomJson object submitted, the
\*   place in cmds of the command that created it, the last status read by a poll and
\*   the load balancers that reported its instance InService after the registration
\* calls: the remote requests and sleeps, in order
\* slept: the seconds slept by the last step (0 when it did not sleep)
\* elb_attributes: the attributes read by the _wait_for_elb call in progress
\* describe_result: the listing (describe_stacks, describe_layers, describe_apps) or the
\*   health checks (describe_load_balancers) in the response just read
\* instance_state: the state read by the describe_instance_health call just made
\* response_code: the HTTPStatusCode of the last response
\* pc, exit_code, fatal: the control state; exit_code is -1 while the run goes on
VARIABLES
    Instances, layerElbs, stackElbs,
    command, allow_reboot, amazon_linux_release, application_name, cmds,
    stack_name, layer_name, deploy_timeout, manage_layer_elbs, hosts, custom_json, ci,
    _stack_id, _layer_id, _application_id, pre_deployment_hooks, post_deployment_hooks,
    load_balancer_names, ec2_ids, idx, kwargs, hi, li, timeout, deployment_id,
    elapsed, polls,
    parse, deployment_status, duration_seconds,
    deployments, calls, slept, elb_attributes, describe_result, instance_state,
    response_code, pc, exit_code, fatal

envVars == <<Instances, layerElbs, stackElbs>>
kindVars == <<command, allow_reboot, amazon_linux_release, application_name, cmds>>
cmdVars == <<stack_name, layer_name, deploy_timeout, manage_layer_elbs, hosts, custom_json, ci>>
idVars == <<_stack_id, _layer_id, _application_id>>
hookVars == <<pre_deployment_hooks, post_deployment_hooks>>
loopVars == <<load_balancer_names, ec2_ids, idx, kwargs>>
stepVars == <<hi, li, timeout>>
pollVars == <<deployment_id, elapsed, polls>>
vars == <<Instances, layerElbs, stackElbs,
          command, allow_reboot, amazon_linux_release, application_name, cmds,
          stack_name, layer_name, deploy_timeout, manage_layer_elbs, hosts, custom_json, ci,
          _stack_id, _layer_id, _application_id, pre_deployment_hooks, post_deployment_hooks,
          load_balancer_names, ec2_ids, idx, kwargs, hi, li, timeout, deployment_id,
          elapsed, polls,
          parse, deployment_status, duration_seconds,
          deployments, calls, slept, elb_attributes, describe_result, instance_state,
          response_code, pc, exit_code, fatal>>

\* parse_custom_json has not been called
NoParse == [opened |-> None, json_data |-> None, parsed |-> EmptyDict, raises |-> FALSE]

\* no terminal deployment record has been read
NoStatus == [CreatedAt |-> 0, CompletedAt |-> 0, Duration |-> 0]

NoKwargs == [instance_ids |-> <<>>, name |-> 0, has_elb |-> FALSE, ec2_instance_id |-> 0]

\* one entry of `calls`
Ev(op, lb, ec2, ids, dep) == [op |-> op, lb |-> lb, ec2 |-> ec2, ids |-> ids, dep |-> dep]

Init ==
    /\ Instances \in Listings
    /\ layerElbs = <<>> /\ stackElbs = <<>>
    /\ command = None /\ allow_reboot = FALSE /\ amazon_linux_release = None
    /\ application_name = None /\ cmds = <<>>
    /\ stack_name = None /\ layer_name = None /\ deploy_timeout = None
    /\ manage_layer_elbs = FALSE /\ hosts = {} /\ custom_json = None /\ ci = 1
    /\ _stack_id = None /\ _layer_id = None /\ _application_id = None
    /\ pre_deployment_hooks = <<>> /\ post_deployment_hooks = <<>>
    /\ load_balancer_names = <<>> /\ ec2_ids = {} /\ idx = 0 /\ kwargs = NoKwargs
    /\ hi = 0 /\ li = 0 /\ timeout = 0 /\ deployment_id = 0
    /\ elapsed = 0 /\ polls = 0
    /\ deployments = <<>> /\ calls = <<>> /\ slept = 0 /\ elb_attributes = <<>>
    /\ describe_result = <<>>
    /\ instance_state = None
    /\ parse = NoParse /\ deployment_status = NoStatus /\ duration_seconds = -1
    /\ response_code = HTTP_OK
    /\ pc = "cli" /\ exit_code = -1 /\ fatal = None

(* --------------------------- pure helpers ----------------------------- *)
\* str.lower() on the names of the listings
lower(s) ==
    CASE s = "Web" -> "web"
      [] s = "WEB" -> "web"
      [] s = "App" -> "app"
      [] s = "APP" -> "app"
      [] s = "MyApp" -> "myapp"
      [] OTHER -> s

RECURSIVE FirstMatch(_, _, _)
\* the Id of the first entry of the listing whose lower-cased Name is `name`
\* (the for ... break loop of stack_id and layer_id); None when the loop falls through
FirstMatch(listing, name, i) ==
    IF i > Len(listing) THEN None
    ELSE IF name = lower(listing[i].Name) THEN listing[i].Id
    ELSE FirstMatch(listing, name, i + 1)

stack_id(listing, name) == FirstMatch(listing, name, 1)

layer_id(listing, name) == FirstMatch(listing, name, 1)

RECURSIVE FirstShortname(_, _, _)
FirstShortname(listing, name, i) ==
    IF i > Len(listing) THEN None
    ELSE IF listing[i].Name = name THEN listing[i].Id
    ELSE FirstShortname(listing, name, i + 1)

\* Deploy.application_id: the Shortname is compared as it is
application_id(listing, name) == FirstShortname(listing, name, 1)

\* mutant of DirectElbNames: every load balancer attached to the layer is taken
DirectElbNames_all(layer_elbs) == layer_elbs

\* _get_opsworks_elb_names, first part: the first load balancer attached to the layer
DirectElbNames(layer_elbs) ==
    IF Len(layer_elbs) > 0 THEN << layer_elbs[1] >> ELSE <<>>

InSeq(x, s) == \E k \in 1..Len(s) : s[k] = x

RECURSIVE ScanStackElbs(_, _, _, _)
\* _get_opsworks_elb_names, second part: every load balancer of the stack that is
\* not in the list yet and has a member among the layer's Ec2InstanceIds
ScanStackElbs(stack_elbs, names, ids, i) ==
    IF i > Len(stack_elbs) THEN names
    ELSE LET elb == stack_elbs[i] IN
         IF InSeq(elb.ElasticLoadBalancerName, names)
         THEN ScanStackElbs(stack_elbs, names, ids, i + 1)
         ELSE IF elb.Ec2InstanceIds \cap ids # {}
         THEN ScanStackElbs(stack_elbs, Append(names, elb.ElasticLoadBalancerName), ids, i + 1)
         ELSE ScanStackElbs(stack_elbs, names, ids, i + 1)

RECURSIVE SelectIds(_, _, _)
\* the InstanceIds, in listing order, of the instances that are online and whose
\* hostname passes `keep`
SelectIds(listing, keep, i) ==
    IF i > Len(listing) THEN <<>>
    ELSE IF listing[i].Status = "online" /\ listing[i].Hostname \in keep
    THEN <<listing[i].InstanceId>> \o SelectIds(listing, keep, i + 1)
    ELSE SelectIds(listing, keep, i + 1)

AllHostnames(listing) == { listing[i].Hostname : i \in 1..Len(listing) }

\* mutant of AtOnceIds: only the first qualifying instance is deployed to
AtOnceIds_first(listing, exclude_hosts) ==
    LET ids == SelectIds(listing, AllHostnames(listing) \ exclude_hosts, 1) IN
    IF ids = <<>> THEN <<>> ELSE << ids[1] >>

\* mutant of AtOnceIds: the exclusion list is not looked at
AtOnceIds_noExclude(listing, exclude_hosts) ==
    SelectIds(listing, AllHostnames(listing), 1)

\* layer_at_once: online and not excluded
AtOnceIds(listing, exclude_hosts) ==
    SelectIds(listing, AllHostnames(listing) \ exclude_hosts, 1)

RECURSIVE NamedIds(_, _, _)
\* the InstanceIds of the instances named, whatever their status
NamedIds(listing, host_names, i) ==
    IF i > Len(listing) THEN <<>>
    ELSE IF listing[i].Hostname \in host_names
    THEN <<listing[i].InstanceId>> \o NamedIds(listing, host_names, i + 1)
    ELSE NamedIds(listing, host_names, i + 1)

\* mutant of HostIds: the status of a named instance is not looked at
HostIds_anyStatus(listing, host_names) == NamedIds(listing, host_names, 1)

\* instances_at_once: online and named
HostIds(listing, host_names) == SelectIds(listing, host_names, 1)

\* layer_rolling: the hooks are appended when at least one load balancer was found
InstallPre(names, hooks) ==
    IF Len(names) > 0 THEN Append(hooks, "_remove_instance_from_elb") ELSE hooks

\* mutant of InstallPost: the hook is put in front of the hooks already installed
InstallPost_first(names, hooks) ==
    IF Len(names) > 0 THEN << "_add_instance_to_elb" >> \o hooks ELSE hooks

InstallPost(names, hooks) ==
    IF Len(names) > 0 THEN Append(hooks, "_add_instance_to_elb") ELSE hooks

\* mutant of OkResponse: the HTTPStatusCode is not looked at
OkResponse_any(code) == TRUE

\* _make_api_call: the response counts as a success
OkResponse(code) == code = HTTP_OK

(* --------------------------- control flow ----------------------------- *)
Goto(p) == /\ pc' = p /\ exit_code' = exit_code /\ fatal' = fatal

\* mutant of Exit: sys.exit(0) in place of sys.exit(1)
Exit_zero(reason) == /\ pc' = "exited" /\ exit_code' = 0 /\ fatal' = reason

\* log(...) ; sys.exit(1), or an uncaught exception ("crash")
Exit(reason) == /\ pc' = "exited" /\ exit_code' = 1 /\ fatal' = reason

\* the step logs no deployment duration
NoDuration == deployment_status' = NoStatus /\ duration_seconds' = -1

\* a step that issues no remote call and reads no response
Quiet ==
    /\ response_code' = response_code /\ elb_attributes' = <<>> /\ describe_result' = <<>>
    /\ instance_state' = None /\ NoDuration

\* a step that issues no remote call, outside parse_custom_json
Local == Quiet /\ parse' = parse

\* _make_api_call: the request is issued; a response that is not a success ends the run
ApiCall(req, Then) ==
    \E code \in StatusCodes :
        /\ calls' = Append(calls, req)
        /\ response_code' = code
        /\ IF OkResponse(code)
           THEN Then
           ELSE /\ Exit("api_error")
                /\ slept' = 0 /\ elb_attributes' = <<>> /\ describe_result' = <<>> /\ instance_state' = None
                /\ NoDuration /\ parse' = parse
                /\ UNCHANGED <<envVars, kindVars, cmdVars, idVars, hookVars, loopVars,
                               stepVars, pollVars, deployments>>

\* mutant of ResolveLayerThen: the layers are listed on every access to layer_id
ResolveLayerThen_always(p) ==
    IF _stack_id # None THEN "describe_layers" ELSE "describe_stacks"

\* where a strategy goes first: self.layer_id and self.stack_id are resolved on first use
ResolveLayerThen(p) ==
    IF _layer_id # None THEN p
    ELSE IF _stack_id # None THEN "describe_layers" ELSE "describe_stacks"

ResolveStackThen(p) == IF _stack_id # None THEN p ELSE "describe_stacks"

AfterLayer(strategy) == IF strategy = "rolling" THEN "elbs_layer" ELSE "describe_instances"

(* ------------------------------ the cli ------------------------------- *)
\* cli update: an Update operation; its constructor installs wait_for_reboot
update ==
    /\ pc = "cli"
    /\ \E ar \in BOOLEAN, rel \in {None, "2014.09"} :
        /\ command' = "update_dependencies"
        /\ allow_reboot' = ar
        /\ amazon_linux_release' = rel
    /\ cmds' = <<>>
    /\ application_name' = None
    /\ pre_deployment_hooks' = <<>>
    /\ post_deployment_hooks' = <<"wait_for_reboot">>
    /\ Goto("command") /\ Local
    /\ slept' = 0
    /\ UNCHANGED <<envVars, cmdVars, idVars, loopVars, stepVars, pollVars, deployments, calls>>

\* cli deploy --application
deploy ==
    /\ pc = "cli"
    /\ command' = "deploy"
    /\ application_name' = "myapp"
    /\ cmds' = <<>>
    /\ pre_deployment_hooks' = <<>>
    /\ post_deployment_hooks' = <<>>
    /\ Goto("command") /\ Local
    /\ slept' = 0
    /\ UNCHANGED <<allow_reboot, amazon_linux_release, envVars, cmdVars, idVars, loopVars,
                   stepVars, pollVars, deployments, calls>>

\* the chain can go on with the command: the command line is one of Chains
CanFollow(chain, strategy) ==
    \E ch \in Chains :
        /\ Len(chain) < Len(ch) /\ ch[Len(chain) + 1] = strategy
        /\ \A k \in 1..Len(chain) : ch[k] = chain[k]

\* the part all target-selection commands share: operation.init and the options.
\* click runs the commands of the chain one after the other; cmds holds those
\* started so far
Target(strategy, first) ==
    /\ pc = "command" /\ ci = Len(cmds) + 1 /\ CanFollow(cmds, strategy)
    /\ cmds' = Append(cmds, strategy)
    /\ \E t \in TimeoutsFor(cmds'), cj \in CustomJsonsFor(cmds') :
        \* the commands of one chain are given the same --timeout and --custom_json
        /\ ci > 1 => t = deploy_timeout /\ cj = custom_json
        /\ deploy_timeout' = t /\ custom_json' = cj
    \* the commands of one chain name the same stack
    /\ \E n \in StackNames : (ci > 1 => n = stack_name) /\ stack_name' = n
    /\ Goto(first) /\ Local
    /\ slept' = 0
    /\ UNCHANGED <<envVars, command, allow_reboot, amazon_linux_release, application_name,
                   ci, idVars, hookVars, loopVars, stepVars, pollVars, deployments, calls>>

\* cli all -> layer_at_once
all ==
    /\ Target("all", ResolveLayerThen("describe_instances"))
    /\ layer_name' = LayerName
    /\ \E x \in {{}} \cup HostLists : hosts' = x
    /\ manage_layer_elbs' = FALSE

\* cli rolling -> layer_rolling
rolling ==
    /\ Target("rolling", ResolveLayerThen("elbs_layer"))
    /\ layer_name' = LayerName
    /\ \E m \in BOOLEAN : manage_layer_elbs' = m
    /\ hosts' = {}

\* cli instances -> instances_at_once
instances ==
    /\ Target("instances", ResolveStackThen("describe_instances"))
    /\ layer_name' = None
    /\ \E h \in HostLists : hosts' = h
    /\ manage_layer_elbs' = FALSE

\* main: every command of the chain returned
main ==
    /\ pc = "command" /\ ci > Len(cmds) /\ cmds \in Chains
    /\ pc' = "exited" /\ exit_code' = 0 /\ fatal' = fatal
    /\ Local /\ slept' = 0
    /\ UNCHANGED <<envVars, kindVars, cmdVars, idVars, hookVars, loopVars, stepVars,
                   pollVars, deployments, calls>>

(* --------------------------- name resolution -------------------------- *)
describe_stacks ==
    /\ pc = "describe_stacks"
    /\ ApiCall(Ev("describe_stacks", "", 0, <<>>, 0),
        \E listing \in StackListings :
            LET id == stack_id(listing, stack_name) IN
            /\ IF id = None
               THEN Exit("stack_not_found") /\ _stack_id' = _stack_id
               ELSE /\ _stack_id' = id
                    /\ Goto(IF cmds[ci] = "instances" THEN "describe_instances"
                            ELSE "describe_layers")
            /\ slept' = 0 /\ elb_attributes' = <<>> /\ describe_result' = listing /\ instance_state' = None
            /\ NoDuration /\ parse' = parse
            /\ UNCHANGED <<envVars, kindVars, cmdVars, _layer_id, _application_id, hookVars,
                           loopVars, stepVars, pollVars, deployments>>)

describe_layers ==
    /\ pc = "describe_layers"
    /\ ApiCall(Ev("describe_layers", "", 0, <<>>, 0),
        \E listing \in LayerListings :
            LET id == layer_id(listing, layer_name) IN
            /\ IF id = None
               THEN Exit("layer_not_found") /\ _layer_id' = _layer_id
               ELSE /\ _layer_id' = id
                    /\ Goto(AfterLayer(cmds[ci]))
            /\ slept' = 0 /\ elb_attributes' = <<>> /\ describe_result' = listing /\ instance_state' = None
            /\ NoDuration /\ parse' = parse
            /\ UNCHANGED <<envVars, kindVars, cmdVars, _stack_id, _application_id, hookVars,
                           loopVars, stepVars, pollVars, deployments>>)

(* ----------------------- load balancer discovery ---------------------- *)
\* _get_opsworks_elb_names, line 164: the load balancers attached to the layer
elbs_layer ==
    /\ pc = "elbs_layer"
    /\ ApiCall(Ev("describe_elastic_load_balancers", "", 0, <<>>, 0),
        /\ \E c \in LbConfigs : layerElbs' = c.layer /\ stackElbs' = c.stack
        /\ load_balancer_names' = DirectElbNames(layerElbs')
        /\ Goto("elbs_instances")
        /\ slept' = 0 /\ elb_attributes' = <<>> /\ describe_result' = <<>> /\ instance_state' = None
        /\ NoDuration /\ parse' = parse
        /\ UNCHANGED <<Instances, kindVars, cmdVars, idVars, hookVars, ec2_ids, idx, kwargs,
                       stepVars, pollVars, deployments>>)

\* _get_opsworks_elb_names, line 168: the Ec2InstanceIds of the layer's instances
elbs_instances ==
    /\ pc = "elbs_instances"
    /\ ApiCall(Ev("describe_instances", "", 0, <<>>, 0),
        /\ ec2_ids' = { Instances[i].Ec2InstanceId : i \in 1..Len(Instances) } \ {0}
        /\ Goto("elbs_stack")
        /\ slept' = 0 /\ elb_attributes' = <<>> /\ describe_result' = <<>> /\ instance_state' = None
        /\ NoDuration /\ parse' = parse
        /\ UNCHANGED <<envVars, kindVars, cmdVars, idVars, hookVars, load_balancer_names, idx,
                       kwargs, stepVars, pollVars, deployments>>)

\* mutant of AfterDiscovery: the load balancers are not detached from the layer
AfterDiscovery_noDetach(manage, names) ==
    IF manage /\ Len(names) = 0 THEN "exit" ELSE "describe_instances"

\* mutant of AfterDiscovery: an empty list of load balancers is not looked for
AfterDiscovery_noCheck(manage, names) ==
    IF manage /\ Len(names) > 0 THEN "detach" ELSE "describe_instances"

\* layer_rolling, lines 109-113: what follows the discovery of the load balancers
AfterDiscovery(manage, names) ==
    IF manage /\ Len(names) = 0 THEN "exit"
    ELSE IF manage THEN "detach"
    ELSE "describe_instances"

\* _get_opsworks_elb_names, line 172, and layer_rolling up to its describe_instances
elbs_stack ==
    /\ pc = "elbs_stack"
    /\ ApiCall(Ev("describe_elastic_load_balancers", "", 0, <<>>, 0),
        LET names == ScanStackElbs(stackElbs, load_balancer_names, ec2_ids, 1)
            next == AfterDiscovery(manage_layer_elbs, names)
        IN
        /\ load_balancer_names' = names
        /\ IF next = "exit"
           THEN Exit("no_elbs") /\ UNCHANGED <<hookVars, li>>
           ELSE IF next = "detach"
           THEN Goto("detach") /\ li' = 1 /\ UNCHANGED hookVars
           ELSE /\ Goto("describe_instances") /\ li' = li
                /\ pre_deployment_hooks' = InstallPre(names, pre_deployment_hooks)
                /\ post_deployment_hooks' = InstallPost(names, post_deployment_hooks)
        /\ slept' = 0 /\ elb_attributes' = <<>> /\ describe_result' = <<>> /\ instance_state' = None
        /\ NoDuration /\ parse' = parse
        /\ UNCHANGED <<envVars, kindVars, cmdVars, idVars, ec2_ids, idx, kwargs, hi, timeout,
                       pollVars, deployments>>)

\* _detach_elb_from_layer, one load balancer; after the last one the hooks are installed
_detach_elb_from_layer ==
    /\ pc = "detach"
    /\ ApiCall(Ev("detach_elastic_load_balancer", load_balancer_names[li], 0, <<>>, 0),
        /\ IF li < Len(load_balancer_names)
           THEN Goto("detach") /\ li' = li + 1 /\ UNCHANGED hookVars
           ELSE /\ Goto("describe_instances") /\ li' = li
                /\ pre_deployment_hooks' = InstallPre(load_balancer_names, pre_deployment_hooks)
                /\ post_deployment_hooks' = InstallPost(load_balancer_names, post_deployment_hooks)
        /\ slept' = 0 /\ elb_attributes' = <<>> /\ describe_result' = <<>> /\ instance_state' = None
        /\ NoDuration /\ parse' = parse
        /\ UNCHANGED <<envVars, kindVars, cmdVars, idVars, loopVars, hi, timeout,
                       pollVars, deployments>>)

(* ----------------------------- strategies ----------------------------- *)
\* the command returned: the next command of the chain
Return == /\ Goto("command") /\ ci' = ci + 1

\* describe_instances of layer_at_once (95), layer_rolling (120), instances_at_once (135)
describe_instances ==
    /\ pc = "describe_instances"
    /\ ApiCall(Ev("describe_instances", "", 0, <<>>, 0),
        /\ IF cmds[ci] = "rolling"
           THEN Goto("rolling_loop") /\ idx' = 1 /\ UNCHANGED <<kwargs, hi>>
           ELSE /\ Goto("pre_hook") /\ hi' = 1 /\ idx' = idx
                /\ kwargs' = [instance_ids |-> IF cmds[ci] = "all"
                                               THEN AtOnceIds(Instances, hosts)
                                               ELSE HostIds(Instances, hosts),
                              name |-> 0, has_elb |-> FALSE, ec2_instance_id |-> 0]
        /\ slept' = 0 /\ elb_attributes' = <<>> /\ describe_result' = <<>> /\ instance_state' = None
        /\ NoDuration /\ parse' = parse
        /\ UNCHANGED <<envVars, kindVars, cmdVars, idVars, hookVars, load_balancer_names,
                       ec2_ids, li, timeout, pollVars, deployments>>)

\* mutant of Eligible: the status of the instance is not looked at
Eligible_any(instance) == TRUE

\* layer_rolling, lines 122-123: the instance is deployed to
Eligible(instance) == instance.Status = "online"

\* layer_rolling, one iteration of the loop over the listing, and what follows the loop
layer_rolling ==
    /\ pc = "rolling_loop"
    /\ IF idx > Len(Instances)
       THEN /\ IF manage_layer_elbs
               THEN Goto("attach") /\ li' = 1 /\ ci' = ci
               ELSE Return /\ li' = li
            /\ UNCHANGED <<idx, kwargs, hi>>
       ELSE IF ~Eligible(Instances[idx])
       THEN Goto("rolling_loop") /\ idx' = idx + 1 /\ UNCHANGED <<kwargs, hi, li, ci>>
       ELSE /\ Goto("pre_hook") /\ hi' = 1
            /\ kwargs' = [instance_ids |-> << Instances[idx].InstanceId >>,
                          name |-> Instances[idx].Hostname,
                          has_elb |-> TRUE,
                          ec2_instance_id |-> Instances[idx].Ec2InstanceId]
            /\ UNCHANGED <<idx, li, ci>>
    /\ Local /\ slept' = 0
    /\ UNCHANGED <<envVars, kindVars, stack_name, layer_name, deploy_timeout, manage_layer_elbs,
                   hosts, custom_json, idVars, hookVars, load_balancer_names, ec2_ids,
                   timeout, pollVars, deployments, calls>>

\* _attach_elb_to_layer, one load balancer
_attach_elb_to_layer ==
    /\ pc = "attach"
    /\ ApiCall(Ev("attach_elastic_load_balancer", load_balancer_names[li], 0, <<>>, 0),
        /\ IF li < Len(load_balancer_names)
           THEN Goto("attach") /\ li' = li + 1 /\ ci' = ci
           ELSE Return /\ li' = li
        /\ slept' = 0 /\ elb_attributes' = <<>> /\ describe_result' = <<>> /\ instance_state' = None
        /\ NoDuration /\ parse' = parse
        /\ UNCHANGED <<envVars, kindVars, stack_name, layer_name, deploy_timeout,
                       manage_layer_elbs, hosts, custom_json, idVars, hookVars, loopVars,
                       hi, timeout, pollVars, deployments>>)

(* ------------------- _deploy_to: the pre-deployment hooks ------------- *)
\* _deploy_to, lines 184-185: the next pre-deployment hook is called.  The only hook
\* that is ever installed is _remove_instance_from_elb, which reads
\* kwargs['load_balancer_names'] (KeyError when the strategy passed none)
pre_hook ==
    /\ pc = "pre_hook"
    /\ IF hi > Len(pre_deployment_hooks)
       THEN Goto("create_args") /\ UNCHANGED <<li, timeout>>
       ELSE IF ~kwargs.has_elb
       THEN Exit("crash") /\ UNCHANGED <<li, timeout>>
       ELSE IF Len(load_balancer_names) = 0
       THEN Goto("drain_sleep") /\ timeout' = 0 /\ li' = li
       ELSE Goto("deregister") /\ li' = 1 /\ timeout' = timeout
    /\ Local /\ slept' = 0
    /\ UNCHANGED <<envVars, kindVars, cmdVars, idVars, hookVars, loopVars, hi,
                   pollVars, deployments, calls>>

\* _remove_instance_from_elb, one load balancer
_remove_instance_from_elb ==
    /\ pc = "deregister"
    /\ ApiCall(Ev("deregister_instances_from_load_balancer", load_balancer_names[li],
                  kwargs.ec2_instance_id, <<>>, 0),
        /\ IF li < Len(load_balancer_names)
           THEN Goto("deregister") /\ li' = li + 1 /\ timeout' = timeout
           ELSE Goto("wait_for_elb") /\ li' = 1 /\ timeout' = 0
        /\ slept' = 0 /\ elb_attributes' = <<>> /\ describe_result' = <<>> /\ instance_state' = None
        /\ NoDuration /\ parse' = parse
        /\ UNCHANGED <<envVars, kindVars, cmdVars, idVars, hookVars, loopVars, hi,
                       pollVars, deployments>>)

\* mutant of DrainTimeout: the timeouts are added up
DrainTimeout_sum(t, attributes) ==
    IF attributes.HasDraining /\ attributes.Enabled
    THEN t + attributes.Timeout
    ELSE t

\* _wait_for_elb, lines 287-290: the running maximum after one load balancer's attributes
DrainTimeout(t, attributes) ==
    IF attributes.HasDraining /\ attributes.Enabled
    THEN Max(t, attributes.Timeout)
    ELSE t

\* _wait_for_elb, lines 291-296: the seconds slept
DrainSleep(t) == IF t > 0 THEN t ELSE DrainFallback

\* _wait_for_elb, one iteration of the loop over the load balancers
_wait_for_elb ==
    /\ pc = "wait_for_elb"
    /\ ApiCall(Ev("describe_load_balancer_attributes", load_balancer_names[li], 0, <<>>, 0),
        \E attributes \in ElbAttributes :
            /\ timeout' = DrainTimeout(timeout, attributes)
            /\ elb_attributes' = Append(elb_attributes, attributes)
            /\ describe_result' = <<>>
            /\ instance_state' = None
            /\ NoDuration /\ parse' = parse
            /\ IF li < Len(load_balancer_names)
               THEN Goto("wait_for_elb") /\ li' = li + 1
               ELSE Goto("drain_sleep") /\ li' = li
            /\ slept' = 0
            /\ UNCHANGED <<envVars, kindVars, cmdVars, idVars, hookVars, loopVars, hi,
                           pollVars, deployments>>)

\* _wait_for_elb, lines 291-296: the sleep; the hook returns
drain_sleep ==
    /\ pc = "drain_sleep"
    /\ slept' = DrainSleep(timeout)
    /\ calls' = Append(calls, Ev("sleep_drain", "", kwargs.ec2_instance_id, <<>>, 0))
    /\ Goto("pre_hook") /\ hi' = hi + 1 /\ li' = 0 /\ timeout' = 0
    /\ UNCHANGED <<envVars, kindVars, cmdVars, idVars, hookVars, loopVars,
                   pollVars, deployments, elb_attributes, describe_result, instance_state,
                   response_code, parse, deployment_status, duration_seconds>>

(* ---------------- _deploy_to: the deployment and its polling ---------- *)
\* dict.update: the keys of `other` replace those of `d`, whole values at a time
dict_update(d, other) ==
    [k \in DOMAIN d \cup DOMAIN other |-> IF k \in DOMAIN other THEN other[k] ELSE d[k]]

\* json.loads raises ValueError on the text
JsonLoadsRaises(text) == text = BadJson

\* json.loads on the valid texts; blanks before the object are skipped
json_loads(text) ==
    CASE text = EmptyJson -> EmptyDict
      [] text = SpacedJson -> EmptyDict
      [] text = DependenciesJson -> [dependencies |-> [packages |-> TRUE]]

\* str.strip() on the texts of CustomJsons
strip(text) == IF text = SpacedJson THEN EmptyJson ELSE text

\* text[:1] on the texts of CustomJsons
first_char(text) ==
    CASE text \in {BadJson, EmptyJson, DependenciesJson} -> "{"
      [] text = SpacedJson -> " "
      [] text = PathJson -> "/"

\* mutant of IsFilePath: the text is not stripped before its first character is read
IsFilePath_noStrip(text) == first_char(text) # "{"

\* parse_custom_json, line 428: the text is taken for the path of a file
IsFilePath(text) == first_char(strip(text)) # "{"

\* what open(custom_json).read() can meet when parse_custom_json is given the text
Contents(text) == IF text # None /\ IsFilePath(text) THEN FileContents ELSE {None}

\* parse_custom_json on the text, `content` being what the file system holds at the
\* path when the text is one: the path opened (None when no file is), the text handed
\* to json.loads (None when it is not reached), the object returned, and whether the
\* call raises (IOError from open, ValueError from json.loads)
parse_custom_json(text, content) ==
    IF text = None
    THEN [opened |-> None, json_data |-> None, parsed |-> EmptyDict, raises |-> FALSE]
    ELSE LET path == IsFilePath(text)
             opened == IF path THEN text ELSE None
             json_data == IF path THEN content ELSE text
         IN
         IF path /\ content = Missing
         THEN [opened |-> opened, json_data |-> None, parsed |-> EmptyDict, raises |-> TRUE]
         ELSE IF JsonLoadsRaises(json_data)
         THEN [opened |-> opened, json_data |-> json_data, parsed |-> EmptyDict,
               raises |-> TRUE]
         ELSE [opened |-> opened, json_data |-> json_data, parsed |-> json_loads(json_data),
               raises |-> FALSE]

\* Update._create_deployment_arguments raises before it parses: it indexes the
\* custom_json string (or None) when an OS release is given (line 367)
ArgumentsRaise(kind, release) == kind = "update_dependencies" /\ release # None

\* _create_deployment_arguments: the object that becomes CustomJson.  Update starts
\* from dependencies.allow_reboot and updates it with the parsed custom JSON; Deploy
\* passes the parsed custom JSON on
CustomPayload(kind, allow, parsed_json) ==
    IF kind = "update_dependencies"
    THEN dict_update([dependencies |-> [allow_reboot |-> allow]], parsed_json)
    ELSE parsed_json

\* _deploy_to, line 187: _create_deployment_arguments up to its first remote call
_create_deployment_arguments ==
    /\ pc = "create_args"
    /\ IF ArgumentsRaise(command, amazon_linux_release)
       THEN Exit("crash") /\ parse' = parse
       ELSE \E content \in Contents(custom_json) :
                /\ parse' = parse_custom_json(custom_json, content)
                /\ IF parse'.raises
                   THEN Exit("crash")
                   ELSE IF command = "deploy" /\ _application_id = None
                   THEN Goto("describe_apps")
                   ELSE Goto("create_deployment")
    /\ Quiet /\ slept' = 0
    /\ UNCHANGED <<envVars, kindVars, cmdVars, idVars, hookVars, loopVars, stepVars,
                   pollVars, deployments, calls>>

\* Deploy.application_id on first use
describe_apps ==
    /\ pc = "describe_apps"
    /\ ApiCall(Ev("describe_apps", "", 0, <<>>, 0),
        \E listing \in AppListings :
            LET id == application_id(listing, application_name) IN
            /\ IF id = None
               THEN Exit("app_not_found") /\ _application_id' = _application_id
               ELSE _application_id' = id /\ Goto("create_deployment")
            /\ slept' = 0 /\ elb_attributes' = <<>> /\ describe_result' = listing /\ instance_state' = None
            /\ NoDuration /\ parse' = parse
            /\ UNCHANGED <<envVars, kindVars, cmdVars, _stack_id, _layer_id, hookVars,
                           loopVars, stepVars, pollVars, deployments>>)

\* _deploy_to, lines 188-193: the deployment is created; polling starts
create_deployment ==
    /\ pc = "create_deployment"
    /\ ApiCall(Ev("create_deployment", "", 0, kwargs.instance_ids, Len(deployments) + 1),
        /\ deployments' = Append(deployments,
                                 [InstanceIds |-> kwargs.instance_ids, Status |-> "running",
                                  InService |-> {}, ci |-> ci,
                                  CustomJson |-> CustomPayload(command, allow_reboot,
                                                               parse.parsed)])
        /\ deployment_id' = Len(deployments) + 1
        /\ elapsed' = 0 /\ polls' = 0
        /\ Goto("poll")
        /\ slept' = 0 /\ elb_attributes' = <<>> /\ describe_result' = <<>> /\ instance_state' = None
        /\ NoDuration /\ parse' = NoParse
        /\ UNCHANGED <<envVars, kindVars, cmdVars, idVars, hookVars, loopVars, stepVars>>)

\* bool(self.deploy_timeout)
Truthy(s) == s # None /\ s # ""

\* float(self.deploy_timeout) on the strings of Timeouts
float(s) ==
    CASE s = "0" -> 0
      [] s = "5" -> 5
      [] s = "30" -> 30

\* mutant of TimedOut: the timeout fires one poll interval late
TimedOut_late(t, elapsed_time) == Truthy(t) /\ elapsed_time > float(t) + PollInterval

\* mutant of TimedOut: an absent timeout counts as 0 seconds
TimedOut_default(t, elapsed_time) == elapsed_time > (IF Truthy(t) THEN float(t) ELSE 0)

\* _poll_deployment_complete, line 220
TimedOut(t, elapsed_time) == Truthy(t) /\ elapsed_time > float(t)

\* mutant of PollDecision: any status the deployment is listed with ends the polling
PollDecision_anyStatus(status, t, elapsed_time) ==
    IF status \in {"successful", "running"} THEN "return"
    ELSE IF status = "failed" THEN "failed"
    ELSE IF Truthy(t) /\ elapsed_time > float(t) THEN "timeout"
    ELSE "sleep"

\* mutant of PollDecision: a failed deployment is logged and polling returns
PollDecision_failedReturns(status, t, elapsed_time) ==
    IF status \in {"successful", "failed"} THEN "return"
    ELSE IF Truthy(t) /\ elapsed_time > float(t) THEN "timeout"
    ELSE "sleep"

\* mutant of PollDecision: the timeout is looked at before the status
PollDecision_timeoutFirst(status, t, elapsed_time) ==
    IF Truthy(t) /\ elapsed_time > float(t) THEN "timeout"
    ELSE IF status = "successful" THEN "return"
    ELSE IF status = "failed" THEN "failed"
    ELSE "sleep"

\* _poll_deployment_complete, lines 206-222: what one iteration decides from the
\* status it read and the elapsed time: "return", "failed", "timeout" or "sleep"
PollDecision(status, t, elapsed_time) ==
    IF status = "successful" THEN "return"
    ELSE IF status = "failed" THEN "failed"
    ELSE IF TimedOut(t, elapsed_time) THEN "timeout"
    ELSE "sleep"

\* _get_deployment_duration: completed_at - started_at, a timedelta (here its total
\* in seconds)
_get_deployment_duration(status) == status.CompletedAt - status.CreatedAt

\* the .seconds attribute of the duration (lines 209 and 213): the seconds of the
\* timedelta without its days
timedelta_seconds(status) == _get_deployment_duration(status) % SecondsPerDay

\* _poll_deployment_complete, one iteration of the while loop.  `elapsed` is the time
\* since start_time when the request is issued, `polls` the requests answered so far
_poll_deployment_complete ==
    /\ pc = "poll"
    /\ \E code \in StatusCodes :
        /\ calls' = IF polls = 0
                    THEN Append(calls, Ev("describe_deployments", "", 0, <<>>, deployment_id))
                    ELSE calls
        /\ response_code' = code
        /\ IF ~OkResponse(code)
           THEN /\ Exit("api_error") /\ NoDuration
                /\ UNCHANGED <<hi, pollVars, deployments>>
           ELSE \E status \in PollStatuses, latency \in 0..MaxLatency :
                LET elapsed_time == elapsed + latency
                    decision == PollDecision(status, deploy_timeout, elapsed_time)
                IN
                /\ deployment_id' = deployment_id
                /\ polls' = polls + 1
                /\ deployments' = IF status \in {"successful", "failed"}
                                  THEN [deployments EXCEPT ![deployment_id].Status = status]
                                  ELSE deployments
                /\ IF status \in {"successful", "failed"}
                   THEN \E each \in TerminalRecords :
                            /\ deployment_status' = each
                            /\ duration_seconds' = timedelta_seconds(each)
                   ELSE NoDuration
                /\ CASE decision = "return" ->
                          Goto("post_hook") /\ hi' = 1 /\ elapsed' = elapsed_time
                     [] decision = "failed" ->
                          Exit("deploy_failed") /\ hi' = hi /\ elapsed' = elapsed_time
                     [] decision = "timeout" ->
                          Exit("timeout") /\ hi' = hi /\ elapsed' = elapsed_time
                     [] OTHER ->
                          /\ polls + 1 < MaxPolls
                          /\ Goto("poll") /\ hi' = hi
                          /\ elapsed' = elapsed_time + PollInterval
    /\ slept' = IF pc' = "poll" THEN PollInterval ELSE 0
    /\ elb_attributes' = <<>> /\ describe_result' = <<>> /\ instance_state' = None
    /\ parse' = parse
    /\ UNCHANGED <<envVars, kindVars, cmdVars, idVars, hookVars, loopVars, li, timeout>>

(* ------------------ _deploy_to: the post-deployment hooks ------------- *)
\* mutant of RebootSleep: the reboot delay is slept whatever allow_reboot holds
RebootSleep_always(allow) == reboot_delay

\* Update.wait_for_reboot, lines 356-358: the seconds slept
RebootSleep(allow) == IF allow THEN reboot_delay ELSE 0

\* _deploy_to, lines 195-196: the next post-deployment hook is called, or _deploy_to
\* returns to its strategy.  wait_for_reboot sleeps when allow_reboot is set;
\* _add_instance_to_elb reads kwargs['load_balancer_names']
post_hook ==
    /\ pc = "post_hook"
    /\ IF hi > Len(post_deployment_hooks)
       THEN /\ IF cmds[ci] = "rolling"
               THEN Goto("rolling_loop") /\ idx' = idx + 1 /\ ci' = ci
               ELSE Return /\ idx' = idx
            /\ UNCHANGED <<hi, li, calls>> /\ slept' = 0
       ELSE IF post_deployment_hooks[hi] = "wait_for_reboot"
       THEN /\ Goto("post_hook") /\ hi' = hi + 1
            /\ IF RebootSleep(allow_reboot) > 0
               THEN /\ slept' = RebootSleep(allow_reboot)
                    /\ calls' = Append(calls, Ev("sleep_reboot", "", kwargs.ec2_instance_id,
                                                 kwargs.instance_ids, deployment_id))
               ELSE slept' = 0 /\ calls' = calls
            /\ UNCHANGED <<idx, li, ci>>
       ELSE /\ IF ~kwargs.has_elb
               THEN Exit("crash") /\ li' = li
               ELSE IF Len(load_balancer_names) = 0
               THEN Goto("describe_load_balancers") /\ li' = li
               ELSE Goto("register") /\ li' = 1
            /\ UNCHANGED <<idx, hi, ci, calls>> /\ slept' = 0
    /\ Local
    \* the locals of _poll_deployment_complete are gone
    /\ elapsed' = 0 /\ polls' = 0
    /\ UNCHANGED <<envVars, kindVars, stack_name, layer_name, deploy_timeout, manage_layer_elbs,
                   hosts, custom_json, idVars, hookVars, load_balancer_names, ec2_ids, kwargs,
                   timeout, deployment_id, deployments>>

\* _add_instance_to_elb, lines 259-262, one load balancer
_add_instance_to_elb ==
    /\ pc = "register"
    /\ ApiCall(Ev("register_instances_with_load_balancer", load_balancer_names[li],
                  kwargs.ec2_instance_id, <<>>, 0),
        /\ IF li < Len(load_balancer_names)
           THEN Goto("register") /\ li' = li + 1
           ELSE Goto("describe_load_balancers") /\ li' = li
        /\ slept' = 0 /\ elb_attributes' = <<>> /\ describe_result' = <<>> /\ instance_state' = None
        /\ NoDuration /\ parse' = parse
        /\ UNCHANGED <<envVars, kindVars, cmdVars, idVars, hookVars, loopVars, hi, timeout,
                       pollVars, deployments>>)

RECURSIVE HealthyWait_noMargin(_, _, _)
\* mutant of HealthyWait: the two extra intervals are left out
HealthyWait_noMargin(descs, t, i) ==
    IF i > Len(descs) THEN t
    ELSE HealthyWait_noMargin(descs, Max(t, descs[i].HealthyThreshold * descs[i].Interval),
                              i + 1)

RECURSIVE HealthyWait(_, _, _)
\* post_elb_registration, lines 145-154: the running maximum over the descriptions
HealthyWait(descs, t, i) ==
    IF i > Len(descs) THEN t
    ELSE HealthyWait(descs,
                     Max(t, (descs[i].HealthyThreshold + HealthMargin) * descs[i].Interval),
                     i + 1)

\* post_elb_registration, lines 146-154: the health checks are read
post_elb_registration ==
    /\ pc = "describe_load_balancers"
    /\ ApiCall(Ev("describe_load_balancers", "", 0, <<>>, 0),
        \E descs \in [1..Len(load_balancer_names) -> HealthChecks] :
            /\ timeout' = HealthyWait(descs, 0, 1)
            /\ Goto("health_sleep")
            /\ slept' = 0 /\ elb_attributes' = <<>> /\ describe_result' = descs /\ instance_state' = None
            /\ NoDuration /\ parse' = parse
            /\ UNCHANGED <<envVars, kindVars, cmdVars, idVars, hookVars, loopVars, hi, li,
                           pollVars, deployments>>)

\* post_elb_registration, line 157: the sleep
health_sleep ==
    /\ pc = "health_sleep"
    /\ slept' = timeout
    /\ calls' = Append(calls, Ev("sleep_health", "", kwargs.ec2_instance_id, <<>>, 0))
    /\ IF Len(load_balancer_names) = 0
       THEN Goto("post_hook") /\ hi' = hi + 1 /\ li' = li
       ELSE Goto("instance_health") /\ hi' = hi /\ li' = 1
    /\ timeout' = 0
    /\ UNCHANGED <<envVars, kindVars, cmdVars, idVars, hookVars, loopVars,
                   pollVars, deployments, response_code, elb_attributes, describe_result,
                   instance_state, parse, deployment_status, duration_seconds>>

\* mutant of InstanceHealthy: the state reported is not looked at
InstanceHealthy_any(state) == TRUE

\* mutant of InstanceHealthy: an instance the response does not list counts as healthy
InstanceHealthy_absentOk(state) == state # "OutOfService"

\* _is_instance_healthy, lines 303-311, on the state reported for the instance
InstanceHealthy(state) == state = "InService"

\* _add_instance_to_elb, lines 267-270, one load balancer
_is_instance_healthy ==
    /\ pc = "instance_health"
    /\ ApiCall(Ev("describe_instance_health", load_balancer_names[li],
                  kwargs.ec2_instance_id, <<>>, 0),
        \E state \in HealthStates :
            /\ IF ~InstanceHealthy(state)
               THEN Exit("unhealthy") /\ UNCHANGED <<hi, li>>
               ELSE IF li < Len(load_balancer_names)
               THEN Goto("instance_health") /\ li' = li + 1 /\ hi' = hi
               ELSE Goto("post_hook") /\ hi' = hi + 1 /\ li' = li
            /\ deployments' =
                 IF state = "InService"
                 THEN [deployments EXCEPT ![deployment_id].InService =
                                              @ \cup {load_balancer_names[li]}]
                 ELSE deployments
            /\ slept' = 0 /\ elb_attributes' = <<>> /\ describe_result' = <<>> /\ instance_state' = state
            /\ NoDuration /\ parse' = parse
            /\ UNCHANGED <<envVars, kindVars, cmdVars, idVars, hookVars, loopVars, timeout,
                           pollVars>>)

(* --------------------------- specification ---------------------------- *)
Next ==
    \/ update \/ deploy
    \/ all \/ rolling \/ instances \/ main
    \/ describe_stacks \/ describe_layers
    \/ elbs_layer \/ elbs_instances \/ elbs_stack
    \/ _detach_elb_from_layer \/ _attach_elb_to_layer
    \/ describe_instances \/ layer_rolling
    \/ pre_hook \/ _remove_instance_from_elb \/ _wait_for_elb \/ drain_sleep
    \/ _create_deployment_arguments \/ describe_apps \/ create_deployment
    \/ _poll_deployment_complete
    \/ post_hook \/ _add_instance_to_elb \/ post_elb_registration \/ health_sleep
    \/ _is_instance_healthy

Spec == Init /\ [][Next]_vars

(* ======================= the claims of the spec ======================= *)
Last(s) == s[Len(s)]

IsPrefix(s, t) == Len(s) <= Len(t) /\ \A k \in 1..Len(s) : s[k] = t[k]

\* the run is over
Exited == pc = "exited"

\* the positions of calls that hold a create_deployment request
Creates == { k \in 1..Len(calls) : calls[k].op = "create_deployment" }

\* a condition the spec calls fatal has been observed: a response that is not a
\* success, a deployment read as failed, or one of the logged abort paths
FatalObserved ==
    \/ response_code # HTTP_OK
    \/ \E d \in 1..Len(deployments) : deployments[d].Status = "failed"
    \/ fatal # None

\* the run's first command is rolling and discovery found at least one load balancer
RollingWithElbs ==
    /\ cmds # <<>> /\ cmds[1] = "rolling"
    /\ Len(load_balancer_names) > 0

(* ------------------------------- C1 ----------------------------------- *)
\* C1: in every strategy a create_deployment request for the next deployment is
\* issued only after the previous deployment of the run has been read by a poll as
\* successful; after a deployment read as failed or a timeout no create_deployment
\* follows; at no point are two deployments of the run both without a terminal status.
C1_DeploymentsNeverOverlap ==
    /\ \A k \in Creates :
         \A d \in 1..(calls[k].dep - 1) :
            /\ deployments[d].Status = "successful"
            /\ \E j \in 1..(k - 1) : calls[j].op = "describe_deployments" /\ calls[j].dep = d
    /\ Cardinality({ d \in 1..Len(deployments) : deployments[d].Status = "running" }) <= 1
    /\ (fatal \in {"deploy_failed", "timeout"}) =>
         /\ Exited /\ ~ENABLED Next
         /\ \A k \in Creates : calls[k].dep <= deployment_id

\* C1 witness: a third deployment is being polled after two earlier ones succeeded
C1_Witness ==
    /\ pc = "poll" /\ Len(deployments) = 3
    /\ deployments[1].Status = "successful" /\ deployments[2].Status = "successful"
    /\ deployments[3].Status = "running"

(* ------------------------------- C2 ----------------------------------- *)
\* the requests and sleeps of the rolling cycle
CycleOps == {"deregister_instances_from_load_balancer", "sleep_drain", "create_deployment",
             "register_instances_with_load_balancer", "sleep_health",
             "describe_instance_health"}

PerElb(op, names, ec2) == [k \in 1..Len(names) |-> Ev(op, names[k], ec2, <<>>, 0)]

\* what one rolling cycle issues for an online instance, as the spec describes it
ExpectedCycle(instance, names, d) ==
    PerElb("deregister_instances_from_load_balancer", names, instance.Ec2InstanceId)
    \o << Ev("sleep_drain", "", instance.Ec2InstanceId, <<>>, 0) >>
    \o << Ev("create_deployment", "", 0, << instance.InstanceId >>, d) >>
    \o PerElb("register_instances_with_load_balancer", names, instance.Ec2InstanceId)
    \o << Ev("sleep_health", "", instance.Ec2InstanceId, <<>>, 0) >>
    \o PerElb("describe_instance_health", names, instance.Ec2InstanceId)

RECURSIVE ExpectedCycles(_, _, _, _)
\* the cycles of the online instances of the listing, in listing order
ExpectedCycles(listing, names, i, d) ==
    IF i > Len(listing) THEN <<>>
    ELSE IF listing[i].Status # "online" THEN ExpectedCycles(listing, names, i + 1, d)
    ELSE ExpectedCycle(listing[i], names, d) \o ExpectedCycles(listing, names, i + 1, d + 1)

IsCycleOp(e) == e.op \in CycleOps

CycleCalls == SelectSeq(calls, IsCycleOp)

\* C2: in a rolling run on a layer with at least one load balancer, deployments are
\* created only for online instances, one instance per deployment, in listing order;
\* each is preceded by the deregistration from every load balancer and the drain
\* wait and followed, once read as successful, by the registration to every load
\* balancer, the health wait and the health check; no such request names an
\* instance that is not online.
C2_RollingCycleOrder ==
    RollingWithElbs =>
        /\ IsPrefix(CycleCalls, ExpectedCycles(Instances, load_balancer_names, 1, 1))
        /\ exit_code = 0 => CycleCalls = ExpectedCycles(Instances, load_balancer_names, 1, 1)
        /\ \A k \in 1..Len(calls) :
             calls[k].op = "register_instances_with_load_balancer" =>
                \E d \in 1..Len(deployments) :
                    /\ deployments[d].Status = "successful"
                    /\ Instances[deployments[d].InstanceIds[1]].Ec2InstanceId = calls[k].ec2

\* C2 witness: the listing [online, stopped, online] with two load balancers, run to
\* the end
C2_Witness ==
    /\ RollingWithElbs /\ Exited /\ exit_code = 0
    /\ Len(load_balancer_names) = 2
    /\ Len(Instances) = 3
    /\ Instances[1].Status = "online" /\ Instances[2].Status = "stopped"
    /\ Instances[3].Status = "online"
    /\ Len(deployments) = 2

(* ------------------------------- C3 ----------------------------------- *)
\* the run is inside the cycle of the instance at idx of a rolling command
InCycle ==
    /\ cmds # <<>> /\ ci <= Len(cmds) /\ cmds[ci] = "rolling"
    /\ idx \in 1..Len(Instances)
    /\ kwargs.has_elb

HasCall(op) == \E k \in 1..Len(calls) : calls[k].op = op

\* C3: in a rolling run, a fatal condition in the cycle of instance K ends the run
\* aborted: no deployment is created for a later instance, K is not registered again
\* after a failed or timed-out deployment, and the load balancers detached at the
\* start are not attached again.
C3_RollingAbortsWithoutCompensation ==
    (cmds # <<>> /\ ci <= Len(cmds) /\ cmds[ci] = "rolling") =>
        /\ FatalObserved => Exited /\ exit_code = 1 /\ ~ENABLED Next
        /\ (Exited /\ InCycle) =>
            /\ exit_code = 1
            /\ ~HasCall("attach_elastic_load_balancer")
            /\ \A k \in Creates : calls[k].ids[1] <= Instances[idx].InstanceId
            /\ (fatal \in {"deploy_failed", "timeout"}) =>
                 ~\E k \in 1..Len(calls) :
                    /\ calls[k].op = "register_instances_with_load_balancer"
                    /\ calls[k].ec2 = kwargs.ec2_instance_id

\* C3 witness: the deployment of the second of three online instances was read as
\* failed, with the load balancers detached at the start
C3_Witness ==
    /\ Exited /\ InCycle /\ fatal = "deploy_failed"
    /\ manage_layer_elbs /\ HasCall("detach_elastic_load_balancer")
    /\ Len(Instances) = 3 /\ idx = 2
    /\ \A i \in 1..3 : Instances[i].Status = "online"

(* ------------------------------- C4 ----------------------------------- *)
\* C4: after registration and the health wait, a load balancer that reports the
\* instance in a state other than InService, or reports no state for it, aborts the
\* run with exit status 1; the health is not read again and no remaining instance is
\* deregistered or deployed.
C4_UnhealthyAborts ==
    instance_state \notin {None, "InService"} =>
        /\ Exited /\ exit_code = 1 /\ fatal = "unhealthy" /\ ~ENABLED Next
        /\ Last(calls).op = "describe_instance_health"
        /\ Last(calls).ec2 = kwargs.ec2_instance_id
        /\ Cardinality({ k \in 1..Len(calls) : calls[k] = Last(calls) }) = 1
        /\ calls[Len(calls) - li] = Ev("sleep_health", "", kwargs.ec2_instance_id, <<>>, 0)
        /\ \A k \in 1..Len(calls) :
             calls[k].op = "deregister_instances_from_load_balancer" =>
                calls[k].ec2 <= kwargs.ec2_instance_id
        /\ \A k \in Creates : calls[k].ids[1] <= kwargs.instance_ids[1]

\* C4 witness: the second load balancer reports no state for the first of two
\* online instances
C4_Witness ==
    /\ instance_state = "absent" /\ li = 2 /\ idx = 1
    /\ Len(Instances) >= 2 /\ Instances[2].Status = "online"

(* ------------------------------- C5 ----------------------------------- *)
SeqToSet(s) == { s[k] : k \in 1..Len(s) }

OnlineInstances == { i \in 1..Len(Instances) : Instances[i].Status = "online" }

\* C5: the run ends with exit code 0 only if every deployment it created was read
\* as successful and, when a rolling command ran, every online instance received a
\* deployment of its own and, with load balancers found, was reported InService by
\* each of them after its registration; every fatal condition ends the run with
\* exit code 1.
C5_ExitCode ==
    /\ exit_code = 0 =>
        /\ Exited
        /\ \A d \in 1..Len(deployments) : deployments[d].Status = "successful"
        /\ "rolling" \in SeqToSet(cmds) =>
            \A i \in OnlineInstances :
                \E d \in 1..Len(deployments) :
                    /\ deployments[d].InstanceIds = << Instances[i].InstanceId >>
                    /\ \A n \in 1..Len(load_balancer_names) :
                        /\ load_balancer_names[n] \in deployments[d].InService
                        /\ \E j, k \in 1..Len(calls) :
                            /\ j < k
                            /\ calls[j] = Ev("register_instances_with_load_balancer",
                                             load_balancer_names[n],
                                             Instances[i].Ec2InstanceId, <<>>, 0)
                            /\ calls[k] = Ev("describe_instance_health",
                                             load_balancer_names[n],
                                             Instances[i].Ec2InstanceId, <<>>, 0)
    /\ FatalObserved => Exited /\ exit_code = 1
    /\ Exited => exit_code \in {0, 1}

\* C5 witness: a rolling update of three online instances behind one load balancer
\* ended with exit code 0
C5_Witness ==
    /\ exit_code = 0 /\ cmds = <<"rolling">> /\ command = "update_dependencies"
    /\ Len(load_balancer_names) = 1
    /\ Cardinality(OnlineInstances) = 3
    /\ Len(deployments) = 3

(* ------------------------------- C6 ----------------------------------- *)
\* C6: with a timeout T and polls 20 seconds apart, a deployment that stays in a
\* non-terminal status takes the timeout path at the first poll whose elapsed time is
\* greater than T: no poll is issued after a poll that measured more than T, and the
\* abort comes no later than T plus one poll interval after polling started (plus the
\* time the requests themselves took).
C6_TimeoutAtFirstPollPastT ==
    /\ fatal = "timeout" =>
        /\ Exited /\ exit_code = 1 /\ ~ENABLED Next
        /\ Truthy(deploy_timeout)
        /\ elapsed > float(deploy_timeout)
        /\ elapsed <= float(deploy_timeout) + PollInterval + MaxLatency
        \* polls exactly 20 seconds apart: the requests took no time
        /\ elapsed = PollInterval * (polls - 1) =>
             elapsed <= float(deploy_timeout) + PollInterval
    /\ (pc = "poll" /\ polls > 0 /\ Truthy(deploy_timeout)) =>
        \* the poll before this one measured elapsed - PollInterval
        elapsed - PollInterval <= float(deploy_timeout)

\* C6 witness: --timeout=5, the second poll, 20 seconds after the first, still reads
\* a non-terminal status
C6_Witness ==
    /\ fatal = "timeout" /\ deploy_timeout = "5" /\ polls = 2 /\ elapsed = PollInterval
    /\ deployments[deployment_id].Status = "running"

(* ------------------------------- C7 ----------------------------------- *)
\* _poll_deployment_complete has just returned normally: elapsed and polls still
\* hold what its last iteration measured
PollReturned == pc = "post_hook" /\ polls > 0

\* C7, as stated: with a timeout T, once the elapsed time exceeds T before a terminal
\* status has been read the run aborts through the timeout path; in particular
\* polling never returns normally for a deployment whose successful status is first
\* read by a poll taken more than T seconds after the first.
C7_NoReturnPastTimeout ==
    (Truthy(deploy_timeout) /\ polls >= 2 /\ pc # "poll"
        /\ response_code = HTTP_OK
        /\ elapsed - MaxLatency > float(deploy_timeout)
        /\ deployments[deployment_id].Status # "failed") =>
      /\ ~PollReturned
      /\ fatal = "timeout"

\* C7, amended: with a timeout T, the timeout path is taken exactly by a poll that
\* reads a non-terminal status (or no record of the deployment) and then measures an
\* elapsed time greater than T.  A poll that reads successful returns normally and a
\* poll that reads failed aborts through the failure path, however long after the
\* first poll they are taken.
C7_TimeoutOnlyAfterNonTerminalPoll ==
    /\ fatal = "timeout" =>
        /\ Truthy(deploy_timeout) /\ elapsed > float(deploy_timeout)
        /\ deployments[deployment_id].Status = "running"
    /\ PollReturned =>
        /\ deployments[deployment_id].Status = "successful"
        /\ fatal = None /\ exit_code = -1
    /\ (polls > 0 /\ deployments[deployment_id].Status = "failed") =>
        fatal = "deploy_failed"
    /\ (pc = "poll" /\ polls > 0 /\ Truthy(deploy_timeout)) =>
        /\ deployments[deployment_id].Status = "running"
        /\ elapsed - PollInterval <= float(deploy_timeout)

\* C7 witness: --timeout=5 and the deployment is read as successful by the second
\* poll, 20 seconds or more after the first; polling returns normally
C7_Witness ==
    /\ PollReturned /\ deploy_timeout = "5" /\ polls = 2
    /\ elapsed >= PollInterval
    /\ deployments[deployment_id].Status = "successful"

(* ------------------------------- C8 ----------------------------------- *)
\* C8: with no timeout configured the timeout path is never taken, however many
\* polls read a non-terminal status: polling ends only by reading successful (normal
\* return), by reading failed (abort) or by a failed remote call, and goes on every
\* 20 seconds otherwise.
C8_NoTimeoutMeansNoTimeoutPath ==
    ~Truthy(deploy_timeout) =>
        /\ fatal # "timeout"
        /\ (pc = "poll" /\ polls > 0) =>
            /\ slept = PollInterval
            /\ elapsed >= PollInterval * polls
            /\ elapsed <= (PollInterval + MaxLatency) * polls
            /\ deployments[deployment_id].Status = "running"
        /\ (Exited /\ polls > 0) =>
            \/ fatal = "api_error" /\ response_code # HTTP_OK
            \/ fatal = "deploy_failed" /\ deployments[deployment_id].Status = "failed"
        /\ PollReturned => deployments[deployment_id].Status = "successful"

\* C8 witness: no --timeout, and a third poll is about to be issued after two that
\* read a non-terminal status
C8_Witness ==
    /\ deploy_timeout = None /\ pc = "poll" /\ polls = 2
    /\ elapsed >= 2 * PollInterval

(* ------------------------------- C9 ----------------------------------- *)
\* C9: a remote call whose response is not a success response aborts the run at once
\* with exit status 1: the call is not issued again and no other remote call follows.
C9_FailedCallAborts ==
    response_code # HTTP_OK =>
        /\ Exited /\ exit_code = 1 /\ fatal = "api_error"
        /\ ~ENABLED Next

\* C9 witness: a register_instances_with_load_balancer request was answered 500
C9_Witness ==
    /\ response_code = 500 /\ Exited
    /\ Last(calls).op = "register_instances_with_load_balancer"

(* ------------------------------- C10 ---------------------------------- *)
\* _wait_for_elb has just slept: elb_attributes holds the attributes it read
AfterDrain ==
    /\ pc = "pre_hook" /\ elb_attributes # <<>>
    /\ Last(calls).op = "sleep_drain"

SetMax(S) == CHOOSE x \in S : \A y \in S : y <= x

\* w(lb) of the claim: the draining timeout when draining is enabled, 20 otherwise
DrainW(attributes) ==
    IF attributes.HasDraining /\ attributes.Enabled THEN attributes.Timeout ELSE DrainFallback

\* C10, as stated: the drain wait is the maximum over the load balancers of w(lb)
C10_DrainIsMaxOfPerElbWaits ==
    AfterDrain =>
        slept = SetMax({ DrainW(elb_attributes[k]) : k \in 1..Len(elb_attributes) })

\* the draining timeouts of the load balancers that have draining enabled
EnabledTimeouts ==
    { elb_attributes[k].Timeout :
        k \in { n \in 1..Len(elb_attributes) :
                  elb_attributes[n].HasDraining /\ elb_attributes[n].Enabled } }

\* C10, amended: the drain wait, performed once after the deregistrations, is the
\* maximum of the draining timeouts of the load balancers on which draining is
\* enabled; it is 20 seconds only when none of them has draining enabled with a
\* positive timeout.  It is never the sum of the per-load-balancer values.
C10_DrainIsMaxOfEnabledTimeouts ==
    AfterDrain =>
        /\ Len(elb_attributes) = Len(load_balancer_names)
        /\ slept = IF EnabledTimeouts = {} \/ SetMax(EnabledTimeouts) <= 0
                   THEN DrainFallback
                   ELSE SetMax(EnabledTimeouts)
        /\ Cardinality({ k \in 1..Len(calls) :
                           calls[k] = Ev("sleep_drain", "", kwargs.ec2_instance_id, <<>>, 0) }) = 1

\* C10 witness: two load balancers, draining enabled with 5 seconds on one and
\* disabled on the other; the wait is 5 seconds
C10_Witness ==
    /\ AfterDrain /\ Len(elb_attributes) = 2 /\ slept = 5
    /\ elb_attributes[1].Enabled /\ elb_attributes[1].Timeout = 5
    /\ ~elb_attributes[2].Enabled

(* ------------------------------- C11 ---------------------------------- *)
\* post_elb_registration has just slept: describe_result holds the health checks read
AfterHealthWait ==
    /\ pc = "instance_health" /\ li = 1
    /\ Last(calls).op = "sleep_health"

\* C11: after an instance is registered, the health wait is the maximum over the load
\* balancers found for the layer of (HealthyThreshold + 2) * Interval, and no
\* describe_instance_health request for the instance is issued before that wait.
C11_HealthWaitIsMaxOverElbs ==
    /\ AfterHealthWait =>
        /\ Len(describe_result) = Len(load_balancer_names)
        /\ slept = SetMax({ (describe_result[k].HealthyThreshold + 2) * describe_result[k].Interval :
                              k \in 1..Len(describe_result) })
    /\ \A k \in 1..Len(calls) :
         calls[k].op = "describe_instance_health" =>
            \E j \in 1..(k - 1) :
                /\ calls[j] = Ev("sleep_health", "", calls[k].ec2, <<>>, 0)
                /\ \A r \in 1..Len(calls) :
                     (calls[r].op = "register_instances_with_load_balancer"
                        /\ calls[r].ec2 = calls[k].ec2) => r < j
                /\ \E r \in 1..(j - 1) :
                     calls[r] = Ev("register_instances_with_load_balancer", calls[k].lb,
                                   calls[k].ec2, <<>>, 0)

\* C11 witness: two load balancers with health checks 2 x 5 s and 10 x 30 s; the wait
\* is (10 + 2) * 30 = 360 seconds
C11_Witness ==
    /\ AfterHealthWait /\ Len(describe_result) = 2
    /\ describe_result[1].HealthyThreshold = 10 /\ describe_result[2].HealthyThreshold = 2
    /\ slept = 360

(* --------------------------- C12, C13, C14 ---------------------------- *)
\* the deployments created by the command at place k of the chain
CreatedBy(k) == { d \in 1..Len(deployments) : deployments[d].ci = k }

\* the places of the chain that hold the given command
Places(strategy) == { k \in 1..Len(cmds) : cmds[k] = strategy }

\* the listing positions of the instances that are online and not excluded
Qualifying == { i \in 1..Len(Instances) :
                  Instances[i].Status = "online" /\ Instances[i].Hostname \notin hosts }

\* the listing positions of the instances that are online and named
Named == { i \in 1..Len(Instances) :
             Instances[i].Status = "online" /\ Instances[i].Hostname \in hosts }

\* the sequence lists the InstanceIds of the listing positions P, each once, in
\* listing order
ListsInOrder(ids, P) ==
    /\ Len(ids) = Cardinality(P)
    /\ SeqToSet(ids) = { Instances[i].InstanceId : i \in P }
    /\ \A a, b \in 1..Len(ids) : a < b => ids[a] < ids[b]

\* the create_deployment request of deployment d carries its InstanceIds
Requested(d) ==
    \E k \in Creates : calls[k].dep = d /\ calls[k].ids = deployments[d].InstanceIds

\* C12, as stated: the all-at-once strategy creates one deployment per qualifying
\* instance: as many create_deployment requests as qualifying instances, each for
\* exactly one InstanceId.
C12_OneDeploymentPerInstance ==
    \A k \in Places("all") :
        /\ \A d \in CreatedBy(k) : Len(deployments[d].InstanceIds) = 1
        /\ ci > k => Cardinality(CreatedBy(k)) = Cardinality(Qualifying)

\* C12, amended: the all-at-once strategy creates a single deployment for all the
\* qualifying instances together: an `all` command issues at most one
\* create_deployment request, exactly one when it completes, and that request lists
\* every qualifying instance (online, hostname not excluded) once, in listing
\* order, also when there are none or several.
C12_OneDeploymentForAll ==
    \A k \in Places("all") :
        /\ Cardinality(CreatedBy(k)) <= 1
        /\ ci > k => Cardinality(CreatedBy(k)) = 1
        /\ \A d \in CreatedBy(k) :
            /\ Requested(d)
            /\ Len(deployments[d].InstanceIds) = Cardinality(Qualifying)
            /\ \A a, b \in 1..Len(deployments[d].InstanceIds) :
                 a < b => deployments[d].InstanceIds[a] < deployments[d].InstanceIds[b]

\* C12 witness: `all` on three online instances, none excluded, completed with one
\* deployment of three InstanceIds
C12_Witness ==
    /\ cmds = <<"all">> /\ exit_code = 0 /\ hosts = {}
    /\ Cardinality(Qualifying) = 3
    /\ Len(deployments) = 1 /\ Len(deployments[1].InstanceIds) = 3

\* C13: in the all-at-once strategy the instances that receive the deployment are
\* exactly those of the layer that are online and whose hostname is not in the
\* exclusion list; an excluded instance is in no create_deployment request, online
\* or not.
C13_AllAtOnceTargets ==
    \A k \in Places("all") :
        \A d \in CreatedBy(k) :
            /\ Requested(d)
            /\ SeqToSet(deployments[d].InstanceIds) =
                 { Instances[i].InstanceId : i \in Qualifying }
            /\ \A i \in 1..Len(Instances) :
                 Instances[i].Hostname \in hosts =>
                    Instances[i].InstanceId \notin SeqToSet(deployments[d].InstanceIds)

\* C13 witness: three online instances, the first excluded; the deployment is for the
\* second and the third
C13_Witness ==
    /\ cmds = <<"all">> /\ pc = "poll" /\ hosts = {101}
    /\ Len(Instances) = 3 /\ \A i \in 1..3 : Instances[i].Status = "online"
    /\ deployments[1].InstanceIds = <<2, 3>>

\* the requests and sleeps that involve a load balancer
ElbOps == {"describe_elastic_load_balancers", "detach_elastic_load_balancer",
           "attach_elastic_load_balancer", "deregister_instances_from_load_balancer",
           "describe_load_balancer_attributes", "sleep_drain",
           "register_instances_with_load_balancer", "describe_load_balancers",
           "sleep_health", "describe_instance_health"}

\* C14: the explicit-hosts strategy issues exactly one create_deployment request, for
\* exactly the instances of the stack that are named and online, and no request to
\* or about a load balancer.
C14_ExplicitHostsOneDeployment ==
    \A k \in Places("instances") :
        /\ Cardinality(CreatedBy(k)) <= 1
        /\ ci > k => Cardinality(CreatedBy(k)) = 1
        /\ ci = k =>
            /\ \A d \in CreatedBy(k) :
                /\ Requested(d)
                /\ ListsInOrder(deployments[d].InstanceIds, Named)
            /\ \A n \in 1..Len(calls) : calls[n].op \notin ElbOps

\* C14 witness: hosts 102 and 103 named, 102 online and 103 stopped; the one
\* deployment is for 102 only
C14_Witness ==
    /\ cmds = <<"instances">> /\ pc = "post_hook" /\ hosts = {102, 103}
    /\ Len(Instances) = 3
    /\ Instances[2].Status = "online" /\ Instances[3].Status = "stopped"
    /\ Len(deployments) = 1 /\ deployments[1].InstanceIds = <<2>>

(* ------------------------------- C15 ---------------------------------- *)
\* the step issues the given request
Issues(op) == Len(calls') = Len(calls) + 1 /\ Last(calls').op = op

\* C15: over the whole run, chained commands included, each of the stack, layer and
\* application ids is assigned at most once: the listing of a scope is requested only
\* while its cached id is unset, and a cached id that is set never changes.
C15_IdsAssignedOnce ==
    [][ /\ _stack_id # None => _stack_id' = _stack_id
        /\ _layer_id # None => _layer_id' = _layer_id
        /\ _application_id # None => _application_id' = _application_id
        /\ Issues("describe_stacks") => _stack_id = None
        /\ Issues("describe_layers") => _layer_id = None
        /\ Issues("describe_apps") => _application_id = None ]_vars

\* C15 witness: the second command of a chain creates its deployment of an
\* application after a rolling command that created two; stacks, layers and apps
\* were listed once each
C15_Witness ==
    /\ ci = 2 /\ pc = "poll" /\ command = "deploy" /\ Len(deployments) = 3
    /\ \A op \in {"describe_stacks", "describe_layers", "describe_apps"} :
         Cardinality({ k \in 1..Len(calls) : calls[k].op = op }) = 1

(* ------------------------------- C16 ---------------------------------- *)
RECURSIVE CaseInsensitiveFirst(_, _, _)
\* the Id of the first entry whose Name equals `name` when letter case is ignored on
\* both sides; None when there is none
CaseInsensitiveFirst(listing, name, i) ==
    IF i > Len(listing) THEN None
    ELSE IF lower(name) = lower(listing[i].Name) THEN listing[i].Id
    ELSE CaseInsensitiveFirst(listing, name, i + 1)

\* the listing of the given kind has just been read
Listed(op) == calls # <<>> /\ Last(calls).op = op /\ response_code = HTTP_OK

\* the lookup ended as the claim says: the id of the first case-insensitive match, or
\* the not-found abort when there is none
ResolvedAs(id, name, reason) ==
    LET want == CaseInsensitiveFirst(describe_result, name, 1) IN
    IF want = None THEN fatal = reason /\ Exited /\ exit_code = 1
    ELSE id = want /\ fatal = None

\* C16: stack, layer and application lookups match the name given by the caller
\* against the Name of the listing whatever the letter case on either side, take the
\* first match, and abort through the not-found path when there is none.
C16_CaseInsensitiveLookup ==
    /\ Listed("describe_stacks") => ResolvedAs(_stack_id, stack_name, "stack_not_found")
    /\ Listed("describe_layers") => ResolvedAs(_layer_id, layer_name, "layer_not_found")
    /\ Listed("describe_apps") =>
         ResolvedAs(_application_id, application_name, "app_not_found")

(* ---------------------------- C17, C18 -------------------------------- *)
\* the rolling command that opens the chain is running, or has ended the run
InRollingRun ==
    /\ cmds # <<>> /\ cmds[1] = "rolling"
    /\ ci = 1 \/ Len(cmds) = 1

\* the positions of calls that hold the given request
CallsOf(op) == { k \in 1..Len(calls) : calls[k].op = op }

\* the instance at listing position i went through its whole cycle
CycleComplete(i) ==
    \E d \in 1..Len(deployments) :
        /\ deployments[d].InstanceIds = << Instances[i].InstanceId >>
        /\ deployments[d].Status = "successful"
        /\ SeqToSet(load_balancer_names) \subseteq deployments[d].InService

\* C17: in a rolling run with --manage-layer-elbs every load balancer found is
\* detached from the layer before the first instance is deregistered or deployed to,
\* and each is attached again only after the cycle of the last online instance is
\* complete (deployment successful, health check passed); without the flag no detach
\* or attach request is issued.
C17_DetachBeforeAttachAfter ==
    /\ (InRollingRun /\ manage_layer_elbs) =>
        /\ \A k \in CallsOf("deregister_instances_from_load_balancer")
                      \cup CallsOf("create_deployment") :
             \A n \in 1..Len(load_balancer_names) :
                \E j \in 1..(k - 1) :
                    calls[j] = Ev("detach_elastic_load_balancer", load_balancer_names[n],
                                  0, <<>>, 0)
        /\ CallsOf("attach_elastic_load_balancer") # {} =>
            /\ \A i \in OnlineInstances : CycleComplete(i)
            /\ \A k \in CallsOf("attach_elastic_load_balancer"), j \in 1..Len(calls) :
                 IsCycleOp(calls[j]) => j < k
        /\ exit_code = 0 =>
             \A n \in 1..Len(load_balancer_names) :
                Cardinality({ k \in 1..Len(calls) :
                    calls[k] = Ev("attach_elastic_load_balancer", load_balancer_names[n],
                                  0, <<>>, 0) }) = 1
    /\ ((InRollingRun /\ ~manage_layer_elbs) \/ Places("rolling") = {}) =>
        /\ CallsOf("detach_elastic_load_balancer") = {}
        /\ CallsOf("attach_elastic_load_balancer") = {}

\* C17 witness: a rolling run with --manage-layer-elbs over two load balancers and at
\* least two online instances ended with exit code 0
C17_Witness ==
    /\ InRollingRun /\ manage_layer_elbs /\ exit_code = 0
    /\ Len(load_balancer_names) = 2
    /\ Cardinality(OnlineInstances) >= 2
    /\ Cardinality(CallsOf("attach_elastic_load_balancer")) = 2

\* both describe_elastic_load_balancers requests of the discovery were answered
DiscoveryDone ==
    /\ Cardinality(CallsOf("describe_elastic_load_balancers")) = 2
    /\ ~(Last(calls).op = "describe_elastic_load_balancers" /\ response_code # HTTP_OK)

\* C18: in a rolling run with --manage-layer-elbs, when the discovery finds no load
\* balancer the run aborts with exit status 1 before any detach, deregister or
\* create_deployment request.
C18_NoElbsAborts ==
    (InRollingRun /\ manage_layer_elbs) =>
        /\ (DiscoveryDone /\ load_balancer_names = <<>>) =>
            /\ fatal = "no_elbs"
            /\ Last(calls).op = "describe_elastic_load_balancers"
        /\ fatal = "no_elbs" =>
            /\ Exited /\ exit_code = 1 /\ ~ENABLED Next
            /\ load_balancer_names = <<>>
            /\ CallsOf("detach_elastic_load_balancer") = {}
            /\ CallsOf("deregister_instances_from_load_balancer") = {}
            /\ CallsOf("create_deployment") = {}

\* C18 witness: --manage-layer-elbs on a layer with online instances and no load
\* balancer
C18_Witness ==
    /\ InRollingRun /\ manage_layer_elbs /\ fatal = "no_elbs"
    /\ Cardinality(OnlineInstances) >= 2

(* ------------------------------- C19 ---------------------------------- *)
\* the Ec2InstanceIds of the instances of the layer
LayerEc2Ids == { Instances[i].Ec2InstanceId : i \in 1..Len(Instances) } \ {0}

\* the places of the stack's listing whose load balancer has a member in the layer
SharingPlaces == { i \in 1..Len(stackElbs) : stackElbs[i].Ec2InstanceIds \cap LayerEc2Ids # {} }

NoDuplicates(q) == \A a, b \in 1..Len(q) : a # b => q[a] # q[b]

\* `names` is `direct` followed by the other load balancers of the stack that share an
\* instance with the layer, each once, in the order of the stack's listing
DirectThenSharing(names, direct) ==
    LET rest == SubSeq(names, Len(direct) + 1, Len(names))
        first(name) == CHOOSE i \in SharingPlaces :
                          /\ stackElbs[i].ElasticLoadBalancerName = name
                          /\ \A j \in SharingPlaces :
                               stackElbs[j].ElasticLoadBalancerName = name => i <= j
    IN
    /\ IsPrefix(direct, names)
    /\ NoDuplicates(names)
    /\ SeqToSet(rest) = { stackElbs[i].ElasticLoadBalancerName : i \in SharingPlaces }
                           \ SeqToSet(direct)
    /\ \A a, b \in 1..Len(rest) : a < b => first(rest[a]) < first(rest[b])

\* the discovery has returned its list
Discovered == DiscoveryDone /\ InRollingRun

\* C19, as stated: the discovery returns every load balancer attached to the layer,
\* all of them in listing order, followed by every other load balancer of the stack
\* that shares an instance with the layer, without duplicates and nothing else.
C19_AllAttachedThenSharing ==
    Discovered => DirectThenSharing(load_balancer_names, layerElbs)

\* C19, amended: the discovery returns, without duplicates, the first load balancer
\* of the listing of those attached to the layer (only the first, when several are
\* listed) followed by every other load balancer of the stack whose member
\* Ec2InstanceIds intersect those of the layer's instances, in the order of the
\* stack's listing; a load balancer that is neither that first one nor shares an
\* instance with the layer is never in the result.
C19_FirstAttachedThenSharing ==
    Discovered =>
        DirectThenSharing(load_balancer_names,
                          IF layerElbs = <<>> THEN <<>> ELSE << layerElbs[1] >>)

\* C19 witness: L1 and L2 attached to the layer, no load balancer of the stack shares
\* an instance with it; only L1 is returned
C19_Witness ==
    /\ Discovered /\ layerElbs = <<"L1", "L2">> /\ load_balancer_names = <<"L1">>
    /\ pc = "describe_instances"

(* ------------------------------- C20 ---------------------------------- *)
\* C20: the CustomJson of every update_dependencies deployment has
\* dependencies.allow_reboot with the value the operation was given, whatever
\* --custom_json holds (nothing, the empty object, an object with a dependencies key).
C20_PayloadCarriesAllowReboot ==
    command = "update_dependencies" =>
        \A d \in 1..Len(deployments) :
            /\ "dependencies" \in DOMAIN deployments[d].CustomJson
            /\ "allow_reboot" \in DOMAIN deployments[d].CustomJson["dependencies"]
            /\ deployments[d].CustomJson["dependencies"]["allow_reboot"] = allow_reboot

(* ------------------------------- C21 ---------------------------------- *)
\* C21: an update_dependencies operation that was given an OS release creates its
\* deployment whatever --custom_json holds (nothing, inline JSON, the path of a file
\* with JSON): the run does not end in an exception raised while the arguments are
\* built from a well-formed input, and the CustomJson of every deployment has
\* dependencies.os_release_version equal to the release given.
C21_OverrideReachesPayload ==
    (command = "update_dependencies" /\ amazon_linux_release # None) =>
        /\ ~(Exited /\ fatal = "crash" /\ ~parse.raises /\ Len(cmds) = 1)
        /\ \A d \in 1..Len(deployments) :
            /\ "dependencies" \in DOMAIN deployments[d].CustomJson
            /\ "os_release_version" \in DOMAIN deployments[d].CustomJson["dependencies"]
            /\ deployments[d].CustomJson["dependencies"]["os_release_version"]
                   = amazon_linux_release

(* ------------------------------- C22 ---------------------------------- *)
\* the wait_for_reboot hook of an Update operation has just returned
AfterRebootHook == pc = "post_hook" /\ hi = 2 /\ command = "update_dependencies"

\* C22: an update_dependencies run sleeps reboot_delay (300) seconds right after a
\* deployment was read as successful, before anything else is issued, exactly when
\* allow_reboot is set; a reboot sleep never happens in a deploy run, never for a
\* deployment that was not read as successful, and never after a deployment read as
\* failed or a timeout.
C22_RebootWaitIffAllowed ==
    /\ \A k \in 1..Len(calls) :
         calls[k].op = "sleep_reboot" =>
            /\ command = "update_dependencies" /\ allow_reboot
            /\ k > 1 /\ calls[k - 1].op = "describe_deployments"
            /\ calls[k - 1].dep = calls[k].dep
            /\ deployments[calls[k].dep].Status = "successful"
    /\ (command = "update_dependencies" /\ allow_reboot) =>
         \A k \in 1..(Len(calls) - 1) :
            (calls[k].op = "describe_deployments"
               /\ deployments[calls[k].dep].Status = "successful") =>
                  calls[k + 1].op = "sleep_reboot" /\ calls[k + 1].dep = calls[k].dep
    /\ AfterRebootHook => slept = (IF allow_reboot THEN reboot_delay ELSE 0)
    /\ (fatal \in {"deploy_failed", "timeout"}) => Last(calls).op # "sleep_reboot"

\* C22 witness: the second instance of a rolling update has been deployed to and the
\* run has just slept the reboot delay
C22_Witness ==
    /\ AfterRebootHook /\ allow_reboot /\ slept = reboot_delay
    /\ cmds[ci] = "rolling" /\ Len(deployments) = 2
    /\ Last(calls).op = "sleep_reboot" /\ Last(calls).dep = 2

(* ------------------------------- C23 ---------------------------------- *)
\* C23: the seconds a poll reports for a deployment it read as successful or failed
\* are CompletedAt minus CreatedAt of the record read, for every pair of timestamps
\* (more than a day apart included), whatever the record's Duration holds.
C23_DurationIsCompletedMinusCreated ==
    duration_seconds # -1 =>
        duration_seconds = deployment_status.CompletedAt - deployment_status.CreatedAt

(* ------------------------------- C24 ---------------------------------- *)
\* parse_custom_json has been called by the _create_deployment_arguments in progress:
\* it returned and create_deployment has not been answered yet, or it ended the run
Parsed ==
    \/ pc \in {"describe_apps", "create_deployment"}
    \/ Exited /\ fatal = "crash" /\ parse.raises
    \/ /\ Exited /\ fatal \in {"api_error", "app_not_found"}
       /\ Last(calls).op \in {"describe_apps", "create_deployment"}

\* the texts whose first character after the blanks is {
StartsWithBrace == {BadJson, EmptyJson, DependenciesJson, SpacedJson}

\* C24: parse_custom_json opens no file and returns the empty object when no text is
\* given; a text whose first character after leading blanks is { goes to the JSON
\* parser as it is and no file is opened; any other text is opened as a path and the
\* contents of the file go to the JSON parser; text or contents that are not JSON end
\* the run with an error; no file is opened outside these calls.
C24_CustomJsonSource ==
    /\ Parsed =>
         /\ custom_json = None =>
              parse = [opened |-> None, json_data |-> None, parsed |-> EmptyDict,
                       raises |-> FALSE]
         /\ custom_json \in StartsWithBrace =>
              /\ parse.opened = None /\ parse.json_data = custom_json
         /\ custom_json \notin StartsWithBrace \cup {None} =>
              /\ parse.opened = custom_json
              /\ parse.json_data \in FileContents \cup {None}
              /\ parse.json_data = None => parse.raises
         /\ parse.json_data = BadJson => parse.raises /\ Exited /\ exit_code = 1
         /\ (parse.json_data \in {EmptyJson, SpacedJson}) =>
              ~parse.raises /\ parse.parsed = EmptyDict
         /\ parse.json_data = DependenciesJson =>
              ~parse.raises /\ parse.parsed = [dependencies |-> [packages |-> TRUE]]
         /\ parse.raises => Exited /\ exit_code = 1 /\ fatal = "crash"
    /\ ~Parsed => parse = NoParse

\* C24 witness: the text is the empty object after two blanks; it was parsed as it is,
\* no file was opened, and the deployment is about to be created
C24_Witness ==
    /\ pc = "create_deployment" /\ custom_json = SpacedJson
    /\ parse.opened = None /\ parse.json_data = SpacedJson /\ parse.parsed = EmptyDict

(* ------------------------------- C25 ---------------------------------- *)
\* the command in progress, or the one that ended the run, is `all`
InAllAtOnce == ci <= Len(cmds) /\ cmds[ci] = "all"

\* the steps that talk to a load balancer or to the layer's attachment
ElbSteps == {"elbs_layer", "elbs_instances", "elbs_stack", "detach", "attach", "deregister",
             "wait_for_elb", "drain_sleep", "register", "describe_load_balancers",
             "health_sleep", "instance_health"}

\* the hooks the operation kind installs itself
OwnPostHooks(kind) == IF kind = "update_dependencies" THEN {"wait_for_reboot"} ELSE {}

\* C25: the dispatch of an `all` command talks to no load balancer and calls no pre-
\* or post-deployment hook but those of the operation kind, also when a `rolling`
\* command of the same chain ran before it on the same operation: no pre-deployment
\* hook is called, every post-deployment hook called is the kind's own, and the
\* command does not end in an exception raised by a hook.
C25_AllAtOnceRunsOnlyOwnHooks ==
    InAllAtOnce =>
        /\ pc \notin ElbSteps
        /\ pc = "pre_hook" => hi > Len(pre_deployment_hooks)
        /\ (pc = "post_hook" /\ hi <= Len(post_deployment_hooks)) =>
              post_deployment_hooks[hi] \in OwnPostHooks(command)
        /\ (Exited /\ fatal = "crash") =>
              parse.raises \/ ArgumentsRaise(command, amazon_linux_release)

(* ------------------------------- C26 ---------------------------------- *)
\* the requests that change something at the remote services
SideEffectOps == {"detach_elastic_load_balancer", "attach_elastic_load_balancer",
                  "deregister_instances_from_load_balancer",
                  "register_instances_with_load_balancer", "create_deployment"}

\* the run ended because a stack, layer or application name was not found
ResolutionFailed == fatal \in {"stack_not_found", "layer_not_found", "app_not_found"}

\* C26: when the first command of a run ends because the stack, the layer or the
\* application was not found by its name, no request that changes anything has been
\* issued before: no detach of a load balancer from the layer, no deregistration of
\* an instance, no create_deployment.
C26_ResolutionFailsBeforeSideEffects ==
    (ResolutionFailed /\ ci = 1) =>
        \A k \in 1..Len(calls) : calls[k].op \notin SideEffectOps

(* ------------------------------- C27 ---------------------------------- *)
\* how many requests of the kind name the instance
Count(op, ec2) ==
    Cardinality({ k \in 1..Len(calls) : calls[k].op = op /\ calls[k].ec2 = ec2 })

Deregistrations(i) ==
    Count("deregister_instances_from_load_balancer", Instances[i].Ec2InstanceId)

Registrations(i) ==
    Count("register_instances_with_load_balancer", Instances[i].Ec2InstanceId)

\* the instances the run took out of a load balancer and has not put back yet
OutOfElbs == { i \in OnlineInstances : Deregistrations(i) > Registrations(i) }

\* C27: in a rolling run with load balancers at most one instance of the layer is
\* deregistered by the run and not registered again; an instance is deregistered only
\* when every instance deregistered before it has been registered again with every
\* load balancer of the run and was reported InService by each of them.
C27_OneInstanceOutAtATime ==
    RollingWithElbs =>
        /\ Cardinality(OutOfElbs) <= 1
        /\ \A i, j \in OnlineInstances :
             (i < j /\ Deregistrations(j) > 0) =>
                /\ Deregistrations(i) = Len(load_balancer_names)
                /\ Registrations(i) = Len(load_balancer_names)
                /\ CycleComplete(i)

\* C27 witness: the second instance has been deregistered from both load balancers
\* after the first one was registered again and reported InService by both
C27_Witness ==
    /\ RollingWithElbs /\ Len(load_balancer_names) = 2
    /\ pc = "wait_for_elb" /\ idx = 2 /\ OutOfElbs = {2}
    /\ Deregistrations(2) = 2 /\ Registrations(1) = 2
    /\ deployments[1].InService = {"L1", "L2"}

(* ------------------------------- C28 ---------------------------------- *)
\* the instances the load balancer held when the run listed the stack's load balancers
MembersBefore(lb) ==
    UNION { stackElbs[i].Ec2InstanceIds :
              i \in { n \in 1..Len(stackElbs) : stackElbs[n].ElasticLoadBalancerName = lb } }

\* C28: a rolling run without --manage-layer-elbs registers an instance only with
\* load balancers the instance was a member of before the run, so a run that completes
\* leaves every instance in exactly the load balancers it was in; stated here for the
\* load balancers that are not attached to the layer and were found through the
\* instances they hold.
C28_MembershipUnchanged ==
    (InRollingRun /\ ~manage_layer_elbs) =>
        \A k \in CallsOf("register_instances_with_load_balancer") :
            calls[k].lb \notin SeqToSet(layerElbs) =>
                calls[k].ec2 \in MembersBefore(calls[k].lb)

(* ------------------------------- C29 ---------------------------------- *)
\* C29: when no instance qualifies for an `all` or an `instances` command (none is
\* online, every online one is excluded, no named host is online) the command issues
\* no create_deployment; every create_deployment of a run carries at least one
\* instance id.
C29_NoEmptyDeployment ==
    \A k \in Creates : calls[k].ids # <<>>

(* ------------------------------- C30 ---------------------------------- *)
\* a rolling update_dependencies run with allow_reboot set that found load balancers
RollingRebootRun ==
    RollingWithElbs /\ command = "update_dependencies" /\ allow_reboot

\* the reboot sleep at position j follows the poll that read the deployment of the
\* instance as successful
RebootWaitFor(j, ec2) ==
    /\ calls[j].op = "sleep_reboot" /\ calls[j].ec2 = ec2
    /\ j > 1 /\ calls[j - 1].op = "describe_deployments" /\ calls[j - 1].dep = calls[j].dep
    /\ deployments[calls[j].dep].Status = "successful"
    /\ \E i \in OnlineInstances :
         /\ Instances[i].Ec2InstanceId = ec2
         /\ deployments[calls[j].dep].InstanceIds = << Instances[i].InstanceId >>

\* C30: in a rolling update_dependencies run with allow_reboot set and load
\* balancers, every registration of an instance with a load balancer comes after the
\* 300-second reboot sleep of that instance, which itself comes after the instance's
\* deployment was read as successful; and the registration is the first thing issued
\* after that sleep.
C30_RebootWaitBeforeRegistration ==
    RollingRebootRun =>
        /\ \A k \in CallsOf("register_instances_with_load_balancer") :
             \E j \in 1..(k - 1) : RebootWaitFor(j, calls[k].ec2)
        /\ \A j \in CallsOf("sleep_reboot") :
             j < Len(calls) =>
                /\ calls[j + 1].op = "register_instances_with_load_balancer"
                /\ calls[j + 1].ec2 = calls[j].ec2
        /\ (pc = "register" /\ li = 1) => Last(calls).op = "sleep_reboot"

\* C30 witness: the second instance has slept its reboot delay and has been
\* registered with the first of two load balancers
C30_Witness ==
    /\ RollingRebootRun /\ pc = "register" /\ li = 2 /\ idx = 2
    /\ Last(calls).op = "register_instances_with_load_balancer"
    /\ RebootWaitFor(Len(calls) - 1, Last(calls).ec2)

====
